---------------------------- MODULE Spec2Model ----------------------------
(***************************************************************************)
(* Model of reading-lamp (src/index.js): the chunker chunkText, the        *)
(* per-chunk converter convertSingleChunk, the merger mergeAudioFiles and  *)
(* the orchestrator convertTextToSpeech under main.                        *)
(*                                                                         *)
(* A JavaScript string is a sequence of one-character strings.  The limit  *)
(* MAX_CHUNK_SIZE is 4000 in the source (line 17) and is scaled down here: *)
(* chunkText only compares lengths with it and cuts at it, so its branches *)
(* are reached by texts of a few multiples of the limit.  It is a bound of *)
(* the model like the text lengths, not the program's value.               *)
(*                                                                         *)
(* The environment of a run: the synthesis service answers each request    *)
(* with audio or with an error, ffmpeg succeeds or fails, SIGINT may       *)
(* arrive at any step; the file operations of the run itself succeed.      *)
(***************************************************************************)
EXTENDS Integers, Sequences, FiniteSets, TLC

(***************************************************************************)
(* Bounds and program constants                                            *)
(***************************************************************************)
\* const MAX_CHUNK_SIZE = 4000, scaled
MAX_CHUNK_SIZE == 3

\* longest text given to chunkText in SpecChunk
MaxTextLen == 8

\* the characters of the modelled texts: a letter, a sentence end, a space
\* and a newline (whitespace for \s and trim(), but no separator for
\* split(' '))
LETTER == "a"
DOT == "."
SP == " "
NL == "\n"

Char == {LETTER, DOT, SP, NL}

\* \s of the regular expression and the characters trim() removes
IsSpace(c) == c \in {SP, NL}

\* the class [.!?] of the sentence regular expression
IsSentenceEnd(c) == c = DOT

(***************************************************************************)
(* String helpers of JavaScript used by chunkText                          *)
(***************************************************************************)
\* s.substring(from) / s.substring(0, to), 0-based as in JavaScript
Substring(s, from, to) ==
    SubSeq(s, (IF from > Len(s) THEN Len(s) ELSE from) + 1,
              IF to > Len(s) THEN Len(s) ELSE to)

RECURSIVE TrimStart(_)
TrimStart(s) ==
    IF s # << >> /\ IsSpace(Head(s)) THEN TrimStart(Tail(s)) ELSE s

RECURSIVE TrimEnd(_)
TrimEnd(s) ==
    IF s # << >> /\ IsSpace(s[Len(s)])
    THEN TrimEnd(SubSeq(s, 1, Len(s) - 1))
    ELSE s

\* s.trim()
Trim(s) == TrimEnd(TrimStart(s))

\* first index >= i of s that holds no whitespace (Len(s) + 1 if none): the
\* end of the greedy match of \s+
RECURSIVE SkipSpaces(_, _)
SkipSpaces(s, i) ==
    IF i <= Len(s) /\ IsSpace(s[i]) THEN SkipSpaces(s, i + 1) ELSE i

\* text.split(/(?<=[.!?])\s+/): cut at every run of whitespace that directly
\* follows a sentence end; the run is dropped, a trailing empty piece is kept
RECURSIVE SplitSentencesFrom(_, _, _, _)
SplitSentencesFrom(s, i, cur, acc) ==
    IF i > Len(s) THEN Append(acc, cur)
    ELSE IF IsSpace(s[i]) /\ i > 1 /\ IsSentenceEnd(s[i - 1])
         THEN SplitSentencesFrom(s, SkipSpaces(s, i), << >>, Append(acc, cur))
         ELSE SplitSentencesFrom(s, i + 1, Append(cur, s[i]), acc)

SplitSentences(s) == SplitSentencesFrom(s, 1, << >>, << >>)

\* sentence.split(' '): cut at every single space, empty pieces kept
RECURSIVE SplitWordsFrom(_, _, _, _)
SplitWordsFrom(s, j, cur, acc) ==
    IF j > Len(s) THEN Append(acc, cur)
    ELSE IF s[j] = SP
         THEN SplitWordsFrom(s, j + 1, << >>, Append(acc, cur))
         ELSE SplitWordsFrom(s, j + 1, Append(cur, s[j]), acc)

SplitWords(s) == SplitWordsFrom(s, 1, << >>, << >>)

\* a + ' ' + b
JoinSpace(a, b) == a \o <<SP>> \o b

(***************************************************************************)
(* chunkText                                                               *)
(***************************************************************************)
\* the loop over the words of an over-long sentence (lines 239-252); the
\* result is the pair of chunks and wordChunk after the last word
RECURSIVE WordLoop(_, _, _, _)
WordLoop(words, k, wordChunk, chunks) ==
    IF k > Len(words) THEN [chunks |-> chunks, wordChunk |-> wordChunk]
    ELSE LET word == words[k] IN
         IF Len(JoinSpace(wordChunk, word)) > MAX_CHUNK_SIZE
         THEN IF wordChunk # << >>
              THEN WordLoop(words, k + 1, word, Append(chunks, Trim(wordChunk)))
              ELSE WordLoop(words, k + 1,
                            Substring(word, MAX_CHUNK_SIZE, Len(word)),
                            Append(chunks, Substring(word, 0, MAX_CHUNK_SIZE)))
         ELSE WordLoop(words, k + 1,
                       IF wordChunk # << >> THEN JoinSpace(wordChunk, word)
                                            ELSE word,
                       chunks)

\* the loop over the sentences (lines 228-268); the result is the pair of
\* chunks and currentChunk after the last sentence
RECURSIVE SentenceLoop(_, _, _, _)
SentenceLoop(sentences, k, currentChunk, chunks) ==
    IF k > Len(sentences)
    THEN [chunks |-> chunks, currentChunk |-> currentChunk]
    ELSE LET sentence == sentences[k] IN
         IF Len(sentence) > MAX_CHUNK_SIZE
         THEN LET flushed == IF currentChunk # << >>
                             THEN Append(chunks, Trim(currentChunk))
                             ELSE chunks
                  w == WordLoop(SplitWords(sentence), 1, << >>, flushed)
              IN  SentenceLoop(sentences, k + 1,
                               IF w.wordChunk # << >> THEN w.wordChunk
                                                      ELSE << >>,
                               w.chunks)
         ELSE IF Len(JoinSpace(currentChunk, sentence)) > MAX_CHUNK_SIZE
              THEN SentenceLoop(sentences, k + 1, sentence,
                                IF currentChunk # << >>
                                THEN Append(chunks, Trim(currentChunk))
                                ELSE chunks)
              ELSE SentenceLoop(sentences, k + 1,
                                IF currentChunk # << >>
                                THEN JoinSpace(currentChunk, sentence)
                                ELSE sentence,
                                chunks)

\* chunks.filter(chunk => chunk.length > 0)
RECURSIVE FilterNonEmpty(_)
FilterNonEmpty(cs) ==
    IF cs = << >> THEN << >>
    ELSE IF Len(Head(cs)) > 0
         THEN <<Head(cs)>> \o FilterNonEmpty(Tail(cs))
         ELSE FilterNonEmpty(Tail(cs))

\* chunkText with the limit itself excluded from the short texts
chunkTextExclusive(text) ==
    IF Len(text) < MAX_CHUNK_SIZE THEN <<text>>
    ELSE LET r == SentenceLoop(SplitSentences(text), 1, << >>, << >>)
             all == IF r.currentChunk # << >>
                    THEN Append(r.chunks, Trim(r.currentChunk))
                    ELSE r.chunks
         IN  FilterNonEmpty(all)

chunkText(text) ==
    IF Len(text) <= MAX_CHUNK_SIZE THEN <<text>>
    ELSE LET r == SentenceLoop(SplitSentences(text), 1, << >>, << >>)
             all == IF r.currentChunk # << >>
                    THEN Append(r.chunks, Trim(r.currentChunk))
                    ELSE r.chunks
         IN  FilterNonEmpty(all)

(***************************************************************************)
(* Configuration, errors and paths                                         *)
(***************************************************************************)
\* longest text given to a run of main in Spec
MaxRunTextLen == 7

\* maxRetries, the default of convertSingleChunk's last parameter
MaxRetries == 3

\* the delay unit of the backoff and the pacing delay, in milliseconds
DelayUnit == 1000

VOICES == {"alloy", "echo", "fable", "onyx", "nova", "shimmer"}

AUDIO_FORMATS == {"mp3", "opus", "aac", "flac", "wav", "pcm"}

\* the configurations getConfiguration resolves for RunInputs: a key with or
\* without
\* the prefix sk-, a supported or an unsupported voice and format, either
\* text source, a file that exists or not
Configs ==
    [apiKey : {"sk-key", "key"},
     voice : {"alloy", "robot"},
     audioFormat : {"mp3", "ogg"},
     textSource : {"direct", "file"},
     fileExists : BOOLEAN,
     output : {"output"}]

\* a flag that was not given, an environment variable that is not set
Undefined == "undefined"

\* !v for a string or undefined
Falsy(v) == v \in {Undefined, ""}

\* a || b
Or(a, b) == IF Falsy(a) THEN b ELSE a

\* program.opts(): the flags as given, output with its default
opts(argv) ==
    [argv EXCEPT !.output = IF argv.output = Undefined THEN "output"
                            ELSE argv.output]

\* the keys that start with sk-
SkKeys == {"sk-key", "sk-flag", "sk-openai", "sk-env", "sk-prompt"}

startsWithSk(key) == key \in SkKeys

\* getConfiguration: in.argv are the flags of the command line, in.env the
\* environment, in.answers what the user answers when prompted, and
\* in.fileExists whether the path of the text file can be accessed
getConfiguration(in) ==
    LET options == opts(in.argv)
        apiKey == Or(Or(options.apiKey, in.env.OPENAI_API_KEY),
                     in.env.READING_LAMP_API_KEY)
        voice == Or(options.voice, in.env.READING_LAMP_VOICE)
        audioFormat == Or(options.audioFormat, in.env.READING_LAMP_AUDIO_FORMAT)
    IN  [apiKey |-> IF Falsy(apiKey) THEN in.answers.apiKey ELSE apiKey,
         voice |-> IF Falsy(voice) THEN in.answers.voice ELSE voice,
         audioFormat |-> IF Falsy(audioFormat) THEN in.answers.audioFormat
                         ELSE audioFormat,
         textSource |-> IF options.text THEN "direct"
                        ELSE IF options.file THEN "file"
                        ELSE in.answers.textSource,
         fileExists |-> in.fileExists,
         output |-> Or(Or(options.output, in.env.READING_LAMP_OUTPUT),
                       "output")]

NoEnv ==
    [OPENAI_API_KEY |-> Undefined, READING_LAMP_API_KEY |-> Undefined,
     READING_LAMP_VOICE |-> Undefined, READING_LAMP_AUDIO_FORMAT |-> Undefined,
     READING_LAMP_OUTPUT |-> Undefined]

DefaultAnswers ==
    [apiKey |-> "sk-prompt", voice |-> "alloy", audioFormat |-> "mp3",
     textSource |-> "direct"]

\* the inputs of a run in Spec: every value given by its flag, a key with or
\* without the prefix sk-, a supported or an unsupported voice and format,
\* the text or a file, a file that exists or not
RunInputs ==
    {in \in [argv : [apiKey : {"sk-key", "key"},
                     voice : {"alloy", "robot"},
                     audioFormat : {"mp3", "ogg"},
                     output : {Undefined},
                     text : BOOLEAN,
                     file : BOOLEAN],
             env : {NoEnv},
             answers : {DefaultAnswers},
             fileExists : BOOLEAN] :
        in.argv.text # in.argv.file}

\* the inputs of getConfiguration in SpecConfig: every flag given or not,
\* every environment variable set or not, each with a value of its own
ConfigInputs ==
    [argv : [apiKey : {Undefined, "sk-flag"},
             voice : {Undefined, "echo"},
             audioFormat : {Undefined, "wav"},
             output : {Undefined, "book"},
             text : BOOLEAN,
             file : {FALSE}],
     env : [OPENAI_API_KEY : {Undefined, "sk-openai"},
            READING_LAMP_API_KEY : {Undefined, "sk-env"},
            READING_LAMP_VOICE : {Undefined, "nova"},
            READING_LAMP_AUDIO_FORMAT : {Undefined, "flac"},
            READING_LAMP_OUTPUT : {Undefined, "story"}],
     answers : {DefaultAnswers},
     fileExists : {TRUE}]

\* no second run
NoPeer == [pc |-> "absent", i |-> 0, chunkPaths |-> << >>]

NoCli ==
    [argv |-> [apiKey |-> Undefined, voice |-> Undefined,
               audioFormat |-> Undefined, output |-> Undefined,
               text |-> FALSE, file |-> FALSE],
     env |-> NoEnv, answers |-> DefaultAnswers, fileExists |-> FALSE]

\* the texts of a run: letters and spaces
RunTexts == UNION {[1..k -> {LETTER, SP}] : k \in 0..MaxRunTextLen}

\* messages of the errors the program throws itself
MsgInvalidKeyFormat == "Invalid OpenAI API key format"
MsgInvalidVoice == "Invalid voice. Supported voices: ..."
MsgInvalidFormat == "Invalid audio format. Supported formats: ..."
MsgFileNotFound == "File not found: ..."
MsgFileEmpty == "File is empty"
MsgMergeFailed ==
    "Failed to merge audio files. Please ensure ffmpeg is installed on your system."
MsgInvalidKey == "Invalid OpenAI API key"
MsgQuota == "OpenAI API quota exceeded"
MsgRateLimit == "OpenAI API rate limit exceeded. Please try again later."
MsgSuccess == "Conversion completed successfully!"
MsgCancelled == "Operation cancelled by user"

\* the errors of the synthesis service: the three categories the program
\* tells apart and a generic one
ErrInvalidKey == [code |-> "invalid_api_key", message |-> "Incorrect API key provided"]
ErrQuota == [code |-> "insufficient_quota", message |-> "You exceeded your current quota"]
ErrRateLimit == [code |-> "rate_limit_exceeded", message |-> "rate limit reached"]
ErrGeneric == [code |-> "none", message |-> "Connection error."]

ServiceErrors == {ErrInvalidKey, ErrQuota, ErrRateLimit, ErrGeneric}

NoError == [code |-> "none", message |-> ""]

\* message.includes(sub) for the messages and the two substrings of the model
Includes(message, sub) ==
    \/ sub = "rate limit" /\ message \in {ErrRateLimit.message, MsgRateLimit}
    \/ sub = "ffmpeg" /\ message = MsgMergeFailed

\* `${config.output}_chunk_${chunkIndex}.${config.audioFormat}`
TempPath(cfg, chunkIndex) ==
    [kind |-> "chunk", base |-> cfg.output, index |-> chunkIndex,
     ext |-> cfg.audioFormat]

\* `${config.output}.${config.audioFormat}`
OutputPath(cfg) ==
    [kind |-> "output", base |-> cfg.output, index |-> 0,
     ext |-> cfg.audioFormat]

\* 'chunks_list.txt'
ListPath == [kind |-> "list", base |-> "chunks_list", index |-> 0, ext |-> "txt"]

\* the audio the service returns for an input; chunk records for which chunk
\* index the request was made
Audio(chunkIndex, input) == [chunk |-> chunkIndex, input |-> input]

(***************************************************************************)
(* State                                                                   *)
(***************************************************************************)
VARIABLES
    pc,          \* position of the run
    cli,         \* the flags, the environment and the answers to the prompts
    peer,        \* a second run in the same working directory
    config,      \* the resolved configuration
    text,        \* the text to convert
    chunks,      \* the result of chunkText(text)
    i,           \* the loop index of convertTextToSpeech (0-based)
    attempt,     \* the loop index of convertSingleChunk
    lastError,   \* lastError of convertSingleChunk
    chunkPaths,  \* the fragment paths collected so far
    files,       \* the files of the working directory: path -> content
    created,     \* every path the run has written
    deleted,     \* every path the run has unlinked, in order
    requests,    \* every synthesis request issued, in order
    lastResponse, \* the outcome of the request answered last
    inflight,    \* synthesis requests issued and not yet answered
    sleeps,      \* every delay the run has waited, in order
    mergeCalls,  \* calls of mergeAudioFiles
    exitCode,    \* -1 while running, else the exit status
    printed,     \* the last message main or a handler has printed
    interrupted  \* SIGINT has ended the run

vars == <<pc, cli, peer, config, text, chunks, i, attempt, lastError, chunkPaths, files,
          created, deleted, requests, lastResponse, inflight, sleeps,
          mergeCalls, exitCode, printed, interrupted>>

runVars == <<i, attempt, lastError, chunkPaths>>
fileVars == <<files, created, deleted>>
logVars == <<requests, lastResponse, inflight, sleeps, mergeCalls>>
exitVars == <<exitCode, printed, interrupted>>

\* no request has been answered yet
NoResponse == [ok |-> TRUE, error |-> NoError]

NoConfig ==
    [apiKey |-> "", voice |-> "", audioFormat |-> "", textSource |-> "",
     fileExists |-> FALSE, output |-> ""]

EmptyFiles == [p \in {} |-> << >>]

\* the state before main runs, but for pc and text
Fresh ==
    /\ config = NoConfig
    /\ chunks = << >>
    /\ i = 0
    /\ attempt = 0
    /\ lastError = NoError
    /\ chunkPaths = << >>
    /\ files = EmptyFiles
    /\ created = {}
    /\ deleted = << >>
    /\ requests = << >>
    /\ lastResponse = NoResponse
    /\ inflight = 0
    /\ sleeps = << >>
    /\ mergeCalls = 0
    /\ exitCode = -1
    /\ printed = ""
    /\ interrupted = FALSE

\* all texts of at most n characters
TextsUpTo(n) == UNION {[1..k -> Char] : k \in 0..n}

(***************************************************************************)
(* The chunker alone: SpecChunk applies chunkText to every bounded text    *)
(***************************************************************************)
InitChunk ==
    /\ pc = "chunk_input"
    /\ text \in TextsUpTo(MaxTextLen)
    /\ cli = NoCli
    /\ peer = NoPeer
    /\ Fresh

ApplyChunkText ==
    /\ pc = "chunk_input"
    /\ chunks' = chunkText(text)
    /\ pc' = "chunk_done"
    /\ UNCHANGED <<cli, peer, config, text, runVars, fileVars, logVars, exitVars>>

NextChunk == ApplyChunkText

SpecChunk == InitChunk /\ [][NextChunk]_vars

(***************************************************************************)
(* File system                                                             *)
(***************************************************************************)
\* fs.writeFile(path, content)
WriteFile(fs, path, content) ==
    [p \in DOMAIN fs \cup {path} |-> IF p = path THEN content ELSE fs[p]]

\* fs.unlink(path)
Unlink(fs, path) == [p \in DOMAIN fs \ {path} |-> fs[p]]

Exists(fs, path) == path \in DOMAIN fs

(***************************************************************************)
(* main                                                                    *)
(***************************************************************************)
Init ==
    /\ pc = "main"
    /\ text = << >>
    /\ cli \in RunInputs
    /\ peer = NoPeer
    /\ Fresh

\* main's catch: print the message, process.exit(1)
ExitWithError(message) ==
    /\ pc' = "exited"
    /\ exitCode' = 1
    /\ printed' = message
    /\ UNCHANGED interrupted

\* the catch of convertTextToSpeech (lines 394-408): the message of the error
\* it throws on to main
CatchConvert(error) ==
    IF error.code = "invalid_api_key" THEN MsgInvalidKey
    ELSE IF error.code = "insufficient_quota" THEN MsgQuota
    ELSE IF Includes(error.message, "rate limit") THEN MsgRateLimit
    ELSE IF Includes(error.message, "ffmpeg") THEN error.message
    ELSE "OpenAI API error: ..."

\* getConfiguration: flags, environment and prompts resolve to a configuration
GetConfiguration ==
    /\ pc = "main"
    /\ config' = getConfiguration(cli)
    /\ pc' = "validate"
    /\ UNCHANGED <<cli, peer, text, chunks, runVars, fileVars, logVars,
                   exitVars>>

\* validateConfiguration
ValidateConfiguration ==
    /\ pc = "validate"
    /\ IF Falsy(config.apiKey) \/ ~startsWithSk(config.apiKey)
       THEN ExitWithError(MsgInvalidKeyFormat)
       ELSE IF config.voice \notin VOICES THEN ExitWithError(MsgInvalidVoice)
       ELSE IF config.audioFormat \notin AUDIO_FORMATS
            THEN ExitWithError(MsgInvalidFormat)
       ELSE IF config.textSource = "file" /\ ~config.fileExists
            THEN ExitWithError(MsgFileNotFound)
       ELSE pc' = "get_text" /\ UNCHANGED exitVars
    /\ UNCHANGED <<cli, peer, config, text, chunks, runVars, fileVars, logVars>>

\* getTextContent: config.text as it is, or the content of the file unless it
\* is empty after trim()
GetTextContent ==
    /\ pc = "get_text"
    /\ \E content \in RunTexts :
         IF config.textSource = "direct"
         THEN text' = content /\ pc' = "convert" /\ UNCHANGED exitVars
         ELSE IF Trim(content) = << >>
              THEN ExitWithError(MsgFileEmpty) /\ UNCHANGED text
              ELSE text' = content /\ pc' = "convert" /\ UNCHANGED exitVars
    /\ UNCHANGED <<cli, peer, config, chunks, runVars, fileVars, logVars>>

(***************************************************************************)
(* convertTextToSpeech, single-chunk path (lines 346-359)                  *)
(***************************************************************************)
\* mutant of StartConvert: a single chunk takes the general path too
StartConvertAlwaysLoop ==
    /\ pc = "convert"
    /\ chunks' = chunkText(text)
    /\ pc' = "loop"
    /\ UNCHANGED <<cli, peer, config, text, runVars, fileVars, logVars, exitVars>>

\* lines 338-346: chunkText and the choice of the path
StartConvert ==
    /\ pc = "convert"
    /\ chunks' = chunkText(text)
    /\ pc' = IF Len(chunks') = 1 THEN "single_request" ELSE "loop"
    /\ UNCHANGED <<cli, peer, config, text, runVars, fileVars, logVars, exitVars>>

\* line 350: the one request of the single-chunk path, with input: text
SingleRequest ==
    /\ pc = "single_request"
    /\ requests' = Append(requests,
                          [chunk |-> 1, attempt |-> 1, input |-> text])
    /\ inflight' = inflight + 1
    /\ pc' = "single_wait"
    /\ UNCHANGED <<cli, peer, config, text, chunks, runVars, fileVars, lastResponse,
                   sleeps, mergeCalls, exitVars>>

\* lines 357-359: the response is written to the output path
SingleResponseOk ==
    /\ pc = "single_wait"
    /\ inflight' = inflight - 1
    /\ lastResponse' = [ok |-> TRUE, error |-> NoError]
    /\ files' = WriteFile(files, OutputPath(config), <<Audio(1, text)>>)
    /\ created' = created \cup {OutputPath(config)}
    /\ pc' = "report"
    /\ UNCHANGED <<cli, peer, config, text, chunks, runVars, deleted, requests, sleeps,
                   mergeCalls, exitVars>>

\* the request fails: the catch of convertTextToSpeech, then main's
SingleResponseFail ==
    /\ pc = "single_wait"
    /\ inflight' = inflight - 1
    /\ \E e \in ServiceErrors :
         /\ lastResponse' = [ok |-> FALSE, error |-> e]
         /\ ExitWithError(CatchConvert(e))
    /\ UNCHANGED <<cli, peer, config, text, chunks, runVars, fileVars, requests, sleeps,
                   mergeCalls>>

(***************************************************************************)
(* convertTextToSpeech, multi-chunk path (lines 365-380), and              *)
(* convertSingleChunk                                                      *)
(***************************************************************************)
\* line 367: the loop test; line 370 calls convertSingleChunk(chunks[i], i + 1)
\* and line 380 calls mergeAudioFiles after the loop
LoopTest ==
    /\ pc = "loop"
    /\ IF i < Len(chunks)
       THEN /\ attempt' = 1
            /\ lastError' = NoError
            /\ pc' = "attempt"
       ELSE /\ pc' = "merge"
            /\ UNCHANGED <<attempt, lastError>>
    /\ UNCHANGED <<cli, peer, config, text, chunks, i, chunkPaths, fileVars, logVars,
                   exitVars>>

\* lines 286-293: one attempt of convertSingleChunk issues a request
ChunkRequest ==
    /\ pc = "attempt"
    /\ attempt <= MaxRetries
    /\ requests' = Append(requests,
                          [chunk |-> i + 1, attempt |-> attempt,
                           input |-> chunks[i + 1]])
    /\ inflight' = inflight + 1
    /\ pc' = "chunk_wait"
    /\ UNCHANGED <<cli, peer, config, text, chunks, runVars, fileVars, lastResponse,
                   sleeps, mergeCalls, exitVars>>

\* lines 295-299 and 371-376: the fragment is written to its temporary path,
\* the path is returned and pushed; a pacing delay follows unless this was
\* the last chunk
ChunkResponseOk ==
    /\ pc = "chunk_wait"
    /\ inflight' = inflight - 1
    /\ lastResponse' = [ok |-> TRUE, error |-> NoError]
    /\ files' = WriteFile(files, TempPath(config, i + 1),
                          <<Audio(i + 1, chunks[i + 1])>>)
    /\ created' = created \cup {TempPath(config, i + 1)}
    /\ chunkPaths' = Append(chunkPaths, TempPath(config, i + 1))
    /\ IF i < Len(chunks) - 1
       THEN pc' = "pacing" /\ UNCHANGED i
       ELSE pc' = "loop" /\ i' = i + 1
    /\ UNCHANGED <<cli, peer, config, text, chunks, attempt, lastError, deleted,
                   requests, sleeps, mergeCalls, exitVars>>

\* mutant of ChunkResponseFail: a chunk whose last attempt fails is skipped
ChunkResponseFailSkipsChunk ==
    /\ pc = "chunk_wait"
    /\ inflight' = inflight - 1
    /\ \E e \in ServiceErrors :
         /\ lastResponse' = [ok |-> FALSE, error |-> e]
         /\ lastError' = e
         /\ IF attempt < MaxRetries
            THEN pc' = "backoff" /\ UNCHANGED i
            ELSE pc' = "loop" /\ i' = i + 1
    /\ UNCHANGED <<cli, peer, config, text, chunks, attempt, chunkPaths, fileVars,
                   requests, sleeps, mergeCalls, exitVars>>

\* mutant of ChunkResponseFail: an error of one of the three categories is
\* thrown at once, only a generic error is retried
ChunkResponseFailThrowsCategorized ==
    /\ pc = "chunk_wait"
    /\ inflight' = inflight - 1
    /\ \E e \in ServiceErrors :
         /\ lastResponse' = [ok |-> FALSE, error |-> e]
         /\ lastError' = e
         /\ IF attempt < MaxRetries /\ e = ErrGeneric
            THEN pc' = "backoff" /\ UNCHANGED exitVars
            ELSE ExitWithError(CatchConvert(e))
    /\ UNCHANGED <<cli, peer, config, text, chunks, i, attempt, chunkPaths, fileVars,
                   requests, sleeps, mergeCalls>>

\* lines 300-309: the request fails; the error is kept and, below the bound,
\* a backoff follows; after the last attempt lastError is thrown to the
\* catch of convertTextToSpeech, then to main's
ChunkResponseFail ==
    /\ pc = "chunk_wait"
    /\ inflight' = inflight - 1
    /\ \E e \in ServiceErrors :
         /\ lastResponse' = [ok |-> FALSE, error |-> e]
         /\ lastError' = e
         /\ IF attempt < MaxRetries
            THEN pc' = "backoff" /\ UNCHANGED exitVars
            ELSE ExitWithError(CatchConvert(e))
    /\ UNCHANGED <<cli, peer, config, text, chunks, i, attempt, chunkPaths, fileVars,
                   requests, sleeps, mergeCalls>>

\* mutant of Backoff: the same delay before every attempt
BackoffConstant ==
    /\ pc = "backoff"
    /\ sleeps' = Append(sleeps, [kind |-> "backoff", ms |-> DelayUnit,
                                 chunk |-> i + 1])
    /\ attempt' = attempt + 1
    /\ pc' = "attempt"
    /\ UNCHANGED <<cli, peer, config, text, chunks, i, lastError, chunkPaths, fileVars,
                   requests, lastResponse, inflight, mergeCalls, exitVars>>

\* line 304: setTimeout(resolve, 1000 * attempt), then the next attempt
Backoff ==
    /\ pc = "backoff"
    /\ sleeps' = Append(sleeps, [kind |-> "backoff", ms |-> DelayUnit * attempt,
                                 chunk |-> i + 1])
    /\ attempt' = attempt + 1
    /\ pc' = "attempt"
    /\ UNCHANGED <<cli, peer, config, text, chunks, i, lastError, chunkPaths, fileVars,
                   requests, lastResponse, inflight, mergeCalls, exitVars>>

\* mutant of Pacing: the next chunk starts without a delay
PacingSkipped ==
    /\ pc = "pacing"
    /\ i' = i + 1
    /\ pc' = "loop"
    /\ UNCHANGED <<cli, peer, config, text, chunks, attempt, lastError, chunkPaths,
                   fileVars, logVars, exitVars>>

\* line 375: setTimeout(resolve, 1000), then the next chunk
Pacing ==
    /\ pc = "pacing"
    /\ sleeps' = Append(sleeps, [kind |-> "pacing", ms |-> DelayUnit,
                                 chunk |-> i + 1])
    /\ i' = i + 1
    /\ pc' = "loop"
    /\ UNCHANGED <<cli, peer, config, text, chunks, attempt, lastError, chunkPaths,
                   fileVars, requests, lastResponse, inflight, mergeCalls,
                   exitVars>>

(***************************************************************************)
(* mergeAudioFiles                                                         *)
(***************************************************************************)
\* lines 314-316: the manifest lists chunkPaths in order
MergeWriteList ==
    /\ pc = "merge"
    /\ mergeCalls' = mergeCalls + 1
    /\ files' = WriteFile(files, ListPath, chunkPaths)
    /\ created' = created \cup {ListPath}
    /\ pc' = "ffmpeg"
    /\ UNCHANGED <<cli, peer, config, text, chunks, runVars, deleted, requests,
                   lastResponse, inflight, sleeps, exitVars>>

\* the content ffmpeg -f concat -c copy writes for a manifest
Concat(fs, manifest) ==
    [k \in 1..Len(manifest) |-> fs[manifest[k]][1]]

\* the concat demuxer can succeed only on a manifest that names at least one
\* file and only files that exist
FfmpegCanSucceed(fs) ==
    /\ Exists(fs, ListPath)
    /\ fs[ListPath] # << >>
    /\ \A k \in 1..Len(fs[ListPath]) : Exists(fs, fs[ListPath][k])

\* lines 320-321: ffmpeg succeeds and has written the output path
FfmpegOk ==
    /\ pc = "ffmpeg"
    /\ FfmpegCanSucceed(files)
    /\ files' = WriteFile(files, OutputPath(config),
                          Concat(files, files[ListPath]))
    /\ created' = created \cup {OutputPath(config)}
    /\ pc' = "unlink_list"
    /\ UNCHANGED <<cli, peer, config, text, chunks, runVars, deleted, logVars, exitVars>>

\* mutant of FfmpegFail: the failure path deletes the fragments too
FfmpegFailCleansUp ==
    /\ pc = "ffmpeg"
    /\ ExitWithError(CatchConvert([code |-> "none", message |-> MsgMergeFailed]))
    /\ files' = [p \in DOMAIN files \ {chunkPaths[k] : k \in 1..Len(chunkPaths)}
                   |-> files[p]]
    /\ deleted' = deleted \o chunkPaths
    /\ UNCHANGED <<cli, peer, config, text, chunks, runVars, created, logVars>>

\* lines 328-331 and 403-404: ffmpeg fails (not installed, or any other
\* cause); the error of mergeAudioFiles passes the catch of
\* convertTextToSpeech as it is
FfmpegFail ==
    /\ pc = "ffmpeg"
    /\ ExitWithError(CatchConvert([code |-> "none", message |-> MsgMergeFailed]))
    /\ UNCHANGED <<cli, peer, config, text, chunks, runVars, fileVars, logVars>>

\* mutant of UnlinkList: the unlink throws into the catch of mergeAudioFiles
UnlinkListThrows ==
    /\ pc = "unlink_list"
    /\ ExitWithError(CatchConvert([code |-> "none", message |-> MsgMergeFailed]))
    /\ UNCHANGED <<cli, peer, config, text, chunks, runVars, fileVars, logVars>>

\* line 324: the manifest is deleted
UnlinkList ==
    /\ pc = "unlink_list"
    /\ IF Exists(files, ListPath)
       THEN /\ files' = Unlink(files, ListPath)
            /\ deleted' = Append(deleted, ListPath)
            /\ pc' = "unlink_chunks"
            /\ UNCHANGED exitVars
       ELSE /\ ExitWithError(CatchConvert([code |-> "ENOENT",
                                           message |-> MsgMergeFailed]))
            /\ UNCHANGED <<files, deleted>>
    /\ UNCHANGED <<cli, peer, config, text, chunks, runVars, created, logVars>>

\* mutant of UnlinkChunks: the loop stops before the last fragment
UnlinkChunksButLast ==
    /\ pc = "unlink_chunks"
    /\ files' = [p \in DOMAIN files \
                       {chunkPaths[k] : k \in 1..Len(chunkPaths) - 1}
                   |-> files[p]]
    /\ deleted' = deleted \o SubSeq(chunkPaths, 1, Len(chunkPaths) - 1)
    /\ pc' = "report"
    /\ UNCHANGED <<cli, peer, config, text, chunks, runVars, created, logVars, exitVars>>

\* lines 325-327: every fragment is deleted, in the order of chunkPaths
UnlinkChunks ==
    /\ pc = "unlink_chunks"
    /\ files' = [p \in DOMAIN files \ {chunkPaths[k] : k \in 1..Len(chunkPaths)}
                   |-> files[p]]
    /\ deleted' = deleted \o chunkPaths
    /\ pc' = "report"
    /\ UNCHANGED <<cli, peer, config, text, chunks, runVars, created, logVars, exitVars>>

(***************************************************************************)
(* The end of the run                                                      *)
(***************************************************************************)
\* lines 383-392 and 68: fs.stat(outputPath), the summary, the success
\* message; main returns and the process exits with status 0
Report ==
    /\ pc = "report"
    /\ IF Exists(files, OutputPath(config))
       THEN /\ pc' = "exited"
            /\ exitCode' = 0
            /\ printed' = MsgSuccess
            /\ UNCHANGED interrupted
       ELSE ExitWithError(CatchConvert([code |-> "ENOENT",
                                        message |-> "no such file or directory"]))
    /\ UNCHANGED <<cli, peer, config, text, chunks, runVars, fileVars, logVars>>

\* Interrupt leaving with the status of an error
InterruptAsError ==
    /\ pc # "exited"
    /\ pc' = "exited"
    /\ exitCode' = 1
    /\ printed' = MsgCancelled
    /\ interrupted' = TRUE
    /\ UNCHANGED <<cli, peer, config, text, chunks, runVars, fileVars, logVars>>

\* lines 423-426: SIGINT at any point of the run
Interrupt ==
    /\ pc # "exited"
    /\ pc' = "exited"
    /\ exitCode' = 0
    /\ printed' = MsgCancelled
    /\ interrupted' = TRUE
    /\ UNCHANGED <<cli, peer, config, text, chunks, runVars, fileVars, logVars>>

Next ==
    \/ GetConfiguration
    \/ ValidateConfiguration
    \/ GetTextContent
    \/ StartConvert
    \/ SingleRequest
    \/ SingleResponseOk
    \/ SingleResponseFail
    \/ LoopTest
    \/ ChunkRequest
    \/ ChunkResponseOk
    \/ ChunkResponseFail
    \/ Backoff
    \/ Pacing
    \/ MergeWriteList
    \/ FfmpegOk
    \/ FfmpegFail
    \/ UnlinkList
    \/ UnlinkChunks
    \/ Report
    \/ Interrupt

Spec == Init /\ [][Next]_vars

(***************************************************************************)
(* getConfiguration and validateConfiguration on every combination of      *)
(* flags and environment variables                                         *)
(***************************************************************************)
InitConfig ==
    /\ pc = "main"
    /\ text = << >>
    /\ cli \in ConfigInputs
    /\ peer = NoPeer
    /\ Fresh

NextConfig ==
    \/ GetConfiguration
    \/ ValidateConfiguration

SpecConfig == InitConfig /\ [][NextConfig]_vars

(***************************************************************************)
(* Two runs in one working directory.  The second run is                   *)
(* reading-lamp --text <PeerText> -o other: the same program in another    *)
(* process, followed through the steps that touch the directory, with a    *)
(* service that answers every request.  Both runs see the same files.      *)
(***************************************************************************)
PeerConfig ==
    [apiKey |-> "sk-key", voice |-> "alloy", audioFormat |-> "mp3",
     textSource |-> "direct", fileExists |-> FALSE, output |-> "other"]

\* two sentences of MAX_CHUNK_SIZE full stops
PeerText ==
    [k \in 1..2 * MAX_CHUNK_SIZE + 1 |->
        IF k = MAX_CHUNK_SIZE + 1 THEN SP ELSE DOT]

PeerChunks == chunkText(PeerText)

StartPeer == [pc |-> "loop", i |-> 0, chunkPaths |-> << >>]

\* what a step of the second run leaves alone
peerFrame ==
    <<pc, cli, config, text, chunks, runVars, created, deleted, logVars,
      exitVars>>

\* lines 366-378 and 295-299 in the second run: the fragment of its next
\* chunk is written
PeerChunkResponseOk ==
    /\ peer.pc = "loop"
    /\ peer.i < Len(PeerChunks)
    /\ files' = WriteFile(files, TempPath(PeerConfig, peer.i + 1),
                          <<Audio(peer.i + 1, PeerChunks[peer.i + 1])>>)
    /\ peer' = [pc |-> IF peer.i + 1 < Len(PeerChunks) THEN "loop" ELSE "merge",
                i |-> peer.i + 1,
                chunkPaths |-> Append(peer.chunkPaths,
                                      TempPath(PeerConfig, peer.i + 1))]
    /\ UNCHANGED peerFrame

\* lines 313-316 in the second run
PeerMergeWriteList ==
    /\ peer.pc = "merge"
    /\ files' = WriteFile(files, ListPath, peer.chunkPaths)
    /\ peer' = [peer EXCEPT !.pc = "ffmpeg"]
    /\ UNCHANGED peerFrame

\* lines 318-321 and 328-331 in the second run: ffmpeg reads the manifest it
\* finds
PeerFfmpeg ==
    /\ peer.pc = "ffmpeg"
    /\ IF FfmpegCanSucceed(files)
       THEN /\ files' = WriteFile(files, OutputPath(PeerConfig),
                                  Concat(files, files[ListPath]))
            /\ peer' = [peer EXCEPT !.pc = "unlink_list"]
       ELSE /\ peer' = [peer EXCEPT !.pc = "failed"]
            /\ UNCHANGED files
    /\ UNCHANGED peerFrame

\* line 324 in the second run
PeerUnlinkList ==
    /\ peer.pc = "unlink_list"
    /\ IF Exists(files, ListPath)
       THEN /\ files' = Unlink(files, ListPath)
            /\ peer' = [peer EXCEPT !.pc = "unlink_chunks"]
       ELSE /\ peer' = [peer EXCEPT !.pc = "failed"]
            /\ UNCHANGED files
    /\ UNCHANGED peerFrame

\* lines 325-327 in the second run
PeerUnlinkChunks ==
    /\ peer.pc = "unlink_chunks"
    /\ files' = [p \in DOMAIN files \
                       {peer.chunkPaths[k] : k \in 1..Len(peer.chunkPaths)}
                   |-> files[p]]
    /\ peer' = [peer EXCEPT !.pc = "done"]
    /\ UNCHANGED peerFrame

\* the first run: reading-lamp --text <text>, the output base name left to
\* its default
TwoInputs ==
    {in \in RunInputs :
        /\ in.argv.apiKey = "sk-key"
        /\ in.argv.voice = "alloy"
        /\ in.argv.audioFormat = "mp3"
        /\ in.argv.text
        /\ ~in.fileExists}

InitTwo ==
    /\ pc = "main"
    /\ text = << >>
    /\ cli \in TwoInputs
    /\ peer = StartPeer
    /\ Fresh

NextTwo ==
    \/ Next
    \/ PeerChunkResponseOk
    \/ PeerMergeWriteList
    \/ PeerFfmpeg
    \/ PeerUnlinkList
    \/ PeerUnlinkChunks

SpecTwo == InitTwo /\ [][NextTwo]_vars

(***************************************************************************)
(* Properties of the chunker                                               *)
(***************************************************************************)
\* the characters of s that are no whitespace, in order
RECURSIVE NonSpace(_)
NonSpace(s) ==
    IF s = << >> THEN << >>
    ELSE IF IsSpace(Head(s)) THEN NonSpace(Tail(s))
         ELSE <<Head(s)>> \o NonSpace(Tail(s))

\* the strings of cs joined with sep between them
RECURSIVE Join(_, _)
Join(cs, sep) ==
    IF cs = << >> THEN << >>
    ELSE IF Len(cs) = 1 THEN Head(cs)
         ELSE Head(cs) \o sep \o Join(Tail(cs), sep)

\* the whitespace-separated words of s: the maximal runs of characters that
\* are no whitespace
RECURSIVE WordsFrom(_, _, _, _)
WordsFrom(s, j, cur, acc) ==
    IF j > Len(s) THEN (IF cur # << >> THEN Append(acc, cur) ELSE acc)
    ELSE IF IsSpace(s[j])
         THEN WordsFrom(s, j + 1, << >>,
                        IF cur # << >> THEN Append(acc, cur) ELSE acc)
         ELSE WordsFrom(s, j + 1, Append(cur, s[j]), acc)

WordsOf(s) == WordsFrom(s, 1, << >>, << >>)

\* pieces is the word sequence ws, where only a word longer than
\* MAX_CHUNK_SIZE may appear as several consecutive pieces
RECURSIVE SameWordsUpToSplit(_, _)
SameWordsUpToSplit(ws, pieces) ==
    IF ws = << >> THEN pieces = << >>
    ELSE /\ pieces # << >>
         /\ LET w == Head(ws)
                p == Head(pieces)
            IN  \/ /\ p = w
                   /\ SameWordsUpToSplit(Tail(ws), Tail(pieces))
                \/ /\ Len(w) > MAX_CHUNK_SIZE
                   /\ Len(p) < Len(w)
                   /\ p = SubSeq(w, 1, Len(p))
                   /\ SameWordsUpToSplit(
                          <<SubSeq(w, Len(p) + 1, Len(w))>> \o Tail(ws),
                          Tail(pieces))

\* C1: every chunk returned by chunkText(t) has length <= MAX_CHUNK_SIZE,
\* for every text t, a whitespace-free word of any length included.
C1_EveryChunkWithinLimit ==
    pc = "chunk_done" =>
        \A k \in 1..Len(chunks) : Len(chunks[k]) <= MAX_CHUNK_SIZE

\* C2: chunkText loses no content: the chunks joined with single spaces have
\* the whitespace-separated words of t, where only a word longer than
\* MAX_CHUNK_SIZE may appear as consecutive pieces.
C2_WordsPreserved ==
    pc = "chunk_done" =>
        SameWordsUpToSplit(WordsOf(text), WordsOf(Join(chunks, <<SP>>)))

\* the second form of C2: the characters of the chunks that are no
\* whitespace, in order, are those of t
C2_NonSpacePreserved ==
    pc = "chunk_done" => NonSpace(Join(chunks, << >>)) = NonSpace(text)


(***************************************************************************)
(* Properties of a run                                                     *)
(***************************************************************************)
\* the run has ended by returning from main
Completed == pc = "exited" /\ exitCode = 0 /\ ~interrupted

\* the run has ended in main's catch
Failed == pc = "exited" /\ exitCode = 1

\* the delays of one kind waited so far, in order
RECURSIVE SleepsOfKind(_, _)
SleepsOfKind(ss, kind) ==
    IF ss = << >> THEN << >>
    ELSE IF Head(ss).kind = kind
         THEN <<Head(ss)>> \o SleepsOfKind(Tail(ss), kind)
         ELSE SleepsOfKind(Tail(ss), kind)

PacingDelays == SleepsOfKind(sleeps, "pacing")

\* the backoff delays waited for one chunk, in order
RECURSIVE BackoffsOf(_, _)
BackoffsOf(ss, chunkIndex) ==
    IF ss = << >> THEN << >>
    ELSE IF Head(ss).kind = "backoff" /\ Head(ss).chunk = chunkIndex
         THEN <<Head(ss).ms>> \o BackoffsOf(Tail(ss), chunkIndex)
         ELSE BackoffsOf(Tail(ss), chunkIndex)

\* the request issued last has been answered
LastAnswered == requests # << >> /\ inflight = 0

LastRequest == requests[Len(requests)]

\* the fragment paths of the chunks 1..n
FragmentPaths(n) == {TempPath(config, k) : k \in 1..n}

\* C3: in a multi-chunk run the requests are sequential and in index order:
\* at most one is in flight, a request for chunk c > 1 is issued only after
\* the fragments of the chunks before c are written and a pacing delay has
\* followed each of them, and a successful run of N chunks has waited exactly
\* N - 1 pacing delays, each of DelayUnit.
C3_SequentialPaced ==
    Len(chunks) >= 2 =>
        /\ inflight <= 1
        /\ \A k \in 1..Len(requests) - 1 :
               requests[k].chunk <= requests[k + 1].chunk
        /\ \A k \in 1..Len(requests) :
               /\ FragmentPaths(requests[k].chunk - 1) \subseteq created
               /\ Len(PacingDelays) >= requests[k].chunk - 1
               /\ \A d \in 1..requests[k].chunk - 1 :
                      PacingDelays[d] =
                          [kind |-> "pacing", ms |-> DelayUnit, chunk |-> d]
        /\ Len(PacingDelays) <= Len(chunks) - 1
        /\ Completed => Len(PacingDelays) = Len(chunks) - 1

C3_Witness ==
    /\ Completed
    /\ Len(chunks) = 3
    /\ Len(requests) > 3
    /\ Len(PacingDelays) = 2

\* C4: convertSingleChunk makes at most MaxRetries attempts for a chunk,
\* numbered from 1, and stops at the first success; before attempt a + 1 it
\* has waited a * DelayUnit after each failed attempt a, it waits nothing
\* after the last failure, and when the last attempt fails the run fails
\* with that attempt's error.
C4_BoundedRetry ==
    Len(chunks) # 1 =>
        /\ \A k \in 1..Len(requests) :
               /\ requests[k].attempt \in 1..MaxRetries
               /\ Len(BackoffsOf(sleeps, requests[k].chunk)) >=
                      requests[k].attempt - 1
               /\ k < Len(requests) =>
                      \/ /\ requests[k + 1].chunk = requests[k].chunk
                         /\ requests[k + 1].attempt = requests[k].attempt + 1
                      \/ /\ requests[k + 1].chunk = requests[k].chunk + 1
                         /\ requests[k + 1].attempt = 1
        /\ \A c \in 1..Len(chunks) :
               /\ Len(BackoffsOf(sleeps, c)) < MaxRetries
               /\ \A a \in 1..Len(BackoffsOf(sleeps, c)) :
                      BackoffsOf(sleeps, c)[a] = a * DelayUnit
        /\ inflight = 1 /\ Len(requests) >= 2 =>
               (LastRequest.chunk = requests[Len(requests) - 1].chunk
                    <=> ~lastResponse.ok)
        /\ inflight = 1 =>
               Len(BackoffsOf(sleeps, LastRequest.chunk)) =
                   LastRequest.attempt - 1
        /\ LastAnswered /\ lastResponse.ok =>
               /\ TempPath(config, LastRequest.chunk) \in created
               /\ Len(BackoffsOf(sleeps, LastRequest.chunk)) =
                      LastRequest.attempt - 1
        /\ LastAnswered /\ ~lastResponse.ok /\ LastRequest.attempt < MaxRetries =>
               \/ pc = "backoff"
               \/ pc = "attempt" /\ attempt = LastRequest.attempt + 1
               \/ interrupted
        /\ LastAnswered /\ ~lastResponse.ok /\ LastRequest.attempt = MaxRetries =>
               /\ Failed
               /\ lastError = lastResponse.error
               /\ printed = CatchConvert(lastResponse.error)
               /\ Len(BackoffsOf(sleeps, LastRequest.chunk)) = MaxRetries - 1

C4_Witness ==
    /\ Failed
    /\ Len(chunks) = 2
    /\ LastRequest = [chunk |-> 2, attempt |-> MaxRetries, input |-> chunks[2]]
    /\ BackoffsOf(sleeps, 2) = <<DelayUnit, 2 * DelayUnit>>
    /\ BackoffsOf(sleeps, 1) = <<DelayUnit>>

\* the last attempt for a chunk has failed
Exhausted ==
    /\ LastAnswered
    /\ ~lastResponse.ok
    /\ LastRequest.attempt = MaxRetries

\* C5: in a multi-chunk run, once the last attempt for chunk k has failed no
\* request is issued for a later chunk, the merger is not invoked and the
\* process exits with status 1.
C5_AbortOnExhaustedChunk ==
    /\ [](Len(chunks) >= 2 /\ Exhausted =>
            /\ Failed
            /\ mergeCalls = 0
            /\ ~Exists(files, ListPath)
            /\ \A k \in 1..Len(requests) :
                   requests[k].chunk <= LastRequest.chunk)
    /\ [][Len(chunks) >= 2 /\ Exhausted =>
            /\ requests' = requests
            /\ mergeCalls' = mergeCalls
            /\ exitCode' = exitCode]_vars

C5_Witness ==
    /\ Failed
    /\ Len(chunks) = 3
    /\ LastRequest.chunk = 2
    /\ LastRequest.attempt = MaxRetries
    /\ mergeCalls = 0

\* the output file holds the audio of every chunk of the text, in order
CompleteOutput ==
    LET out == files[OutputPath(config)] IN
    /\ Len(out) = Len(chunks)
    /\ \A k \in 1..Len(out) :
           /\ out[k].chunk = k
           /\ NonSpace(out[k].input) = NonSpace(chunks[k])

C7_CleanAfterSuccess ==
    Completed /\ Len(chunks) >= 2 =>
        /\ {p \in created : p.kind = "chunk"} = FragmentPaths(Len(chunks))
        /\ Cardinality({p \in created : p.kind = "chunk"}) = Len(chunks)
        /\ created = FragmentPaths(Len(chunks)) \cup {ListPath, OutputPath(config)}
        /\ {deleted[k] : k \in 1..Len(deleted)} =
               FragmentPaths(Len(chunks)) \cup {ListPath}
        /\ Len(deleted) = Len(chunks) + 1
        /\ DOMAIN files = {OutputPath(config)}

C7_Witness ==
    /\ Completed
    /\ Len(chunks) = 3
    /\ Len(deleted) = 4
    /\ DOMAIN files = {OutputPath(config)}

\* C8: when the concatenation tool fails the run ends with the merge-failure
\* message that names the tool and with status 1, and nothing is deleted:
\* every fragment written before the merge still exists with its content.
C8_MergeFailureKeepsFragments ==
    Failed /\ mergeCalls > 0 =>
        /\ printed = MsgMergeFailed
        /\ exitCode = 1
        /\ deleted = << >>
        /\ \A k \in 1..Len(chunks) :
               /\ Exists(files, TempPath(config, k))
               /\ files[TempPath(config, k)] = <<Audio(k, chunks[k])>>

C8_Witness ==
    /\ Failed
    /\ mergeCalls = 1
    /\ Len(chunks) = 3
    /\ printed = MsgMergeFailed
    /\ FragmentPaths(3) \subseteq DOMAIN files

\* C9: when chunkText returns one chunk the run issues one request and no
\* more, waits no delay, writes the response to the output path, writes no
\* fragment and no manifest and does not call the merger.
C9_SingleChunkDirect ==
    Len(chunks) = 1 =>
        /\ Len(requests) <= 1
        /\ \A k \in 1..Len(requests) : requests[k].attempt = 1
        /\ sleeps = << >>
        /\ mergeCalls = 0
        /\ created \subseteq {OutputPath(config)}
        /\ deleted = << >>
        /\ pc = "exited" /\ ~interrupted => Len(requests) = 1
        /\ LastAnswered /\ lastResponse.ok =>
               /\ DOMAIN files = {OutputPath(config)}
               /\ files[OutputPath(config)] = <<Audio(1, requests[1].input)>>
        /\ Completed => LastAnswered /\ lastResponse.ok

C9_Witness ==
    /\ Completed
    /\ Len(chunks) = 1
    /\ Len(requests) = 1
    /\ DOMAIN files = {OutputPath(config)}

\* the three categories of synthesis errors and the message of each
Categorized == {ErrInvalidKey, ErrQuota, ErrRateLimit}

CategoryMessage(e) ==
    CASE e = ErrInvalidKey -> MsgInvalidKey
      [] e = ErrQuota -> MsgQuota
      [] e = ErrRateLimit -> MsgRateLimit

\* the request answered last failed with a categorized error
CategorizedFailure == ~lastResponse.ok /\ lastResponse.error \in Categorized

\* C10 as stated: a request that fails with a categorized error is not
\* retried: no further request follows and the run fails at once with the
\* message of the category.
C10_CategorizedNotRetried ==
    /\ LastAnswered /\ CategorizedFailure =>
           \/ Failed /\ printed = CategoryMessage(lastResponse.error)
           \/ interrupted
    /\ ~(inflight = 1 /\ CategorizedFailure)

\* C10 as amended: a categorized error ends the run at once only in the
\* single-chunk path; in the multi-chunk path it is retried like any other
\* error, and the run fails, with the message of the category, only when the
\* attempt MaxRetries fails with it.
C10_CategorizedRetriedPerChunk ==
    /\ Len(chunks) = 1 /\ LastAnswered /\ CategorizedFailure =>
           /\ Failed
           /\ Len(requests) = 1
           /\ printed = CategoryMessage(lastResponse.error)
    /\ Len(chunks) # 1 /\ LastAnswered /\ CategorizedFailure =>
           IF LastRequest.attempt = MaxRetries
           THEN Failed /\ printed = CategoryMessage(lastResponse.error)
           ELSE \/ pc = "backoff"
                \/ pc = "attempt" /\ attempt = LastRequest.attempt + 1
                \/ interrupted
    /\ inflight = 1 /\ CategorizedFailure =>
           /\ LastRequest.chunk = requests[Len(requests) - 1].chunk
           /\ LastRequest.attempt = requests[Len(requests) - 1].attempt + 1

C10_Witness ==
    /\ inflight = 1
    /\ lastResponse = [ok |-> FALSE, error |-> ErrRateLimit]
    /\ LastRequest.attempt = 2
    /\ LastRequest.chunk = 2


(***************************************************************************)
(* Properties of the retry bound, the empty text and the chunk boundary    *)
(***************************************************************************)
\* C11: in every run, with one chunk or several, a failed synthesis request
\* is retried up to MaxRetries attempts for its chunk: the run ends in an
\* error of the synthesis only after attempt MaxRetries has failed.
C11_FatalOnlyAfterLastAttempt ==
    Failed /\ LastAnswered /\ ~lastResponse.ok =>
        LastRequest.attempt = MaxRetries

\* C12: a text that is empty after trimming is rejected before any synthesis
\* request and before the merger, for a literal text as for a file.
C12_EmptyTextRejected ==
    Trim(text) = << >> => requests = << >> /\ mergeCalls = 0

\* C13: a text of exactly MAX_CHUNK_SIZE characters yields exactly one chunk
\* and a text of MAX_CHUNK_SIZE + 1 characters yields at least two.
C13_ChunkCountBoundary ==
    pc = "chunk_done" =>
        /\ Len(text) = MAX_CHUNK_SIZE => Len(chunks) = 1
        /\ Len(text) = MAX_CHUNK_SIZE + 1 => Len(chunks) >= 2

\* s holds whitespace at its start or end, or two whitespace characters in a
\* row
LooseSpace(s) ==
    \/ s # << >> /\ (IsSpace(s[1]) \/ IsSpace(s[Len(s)]))
    \/ \E k \in 1..Len(s) - 1 : IsSpace(s[k]) /\ IsSpace(s[k + 1])

\* C13 as amended: a text of exactly MAX_CHUNK_SIZE characters yields exactly
\* one chunk; a text of MAX_CHUNK_SIZE + 1 characters yields at least two
\* unless whitespace starts or ends it or it holds two whitespace characters
\* in a row, and exactly two when it holds no whitespace at all.
C13_ChunkCountBoundaryTrimmed ==
    pc = "chunk_done" =>
        /\ Len(text) = MAX_CHUNK_SIZE => chunks = <<text>>
        /\ Len(text) = MAX_CHUNK_SIZE + 1 /\ ~LooseSpace(text) =>
               Len(chunks) >= 2
        /\ Len(text) = MAX_CHUNK_SIZE + 1 /\ NonSpace(text) = text =>
               chunks = <<SubSeq(text, 1, MAX_CHUNK_SIZE),
                          SubSeq(text, MAX_CHUNK_SIZE + 1, Len(text))>>

C13_Witness ==
    /\ pc = "chunk_done"
    /\ Len(text) = MAX_CHUNK_SIZE + 1
    /\ ~LooseSpace(text)
    /\ NonSpace(text) # text
    /\ Len(chunks) = 2

\* C14: a text of at most MAX_CHUNK_SIZE characters yields exactly one chunk,
\* the text trimmed of leading and trailing whitespace.
C14_ShortTextOneTrimmedChunk ==
    pc = "chunk_done" /\ Len(text) <= MAX_CHUNK_SIZE =>
        chunks = <<Trim(text)>>

\* ceil(a / b)
CeilDiv(a, b) == (a + b - 1) \div b

\* C15: a text that is one whitespace-free word of L > MAX_CHUNK_SIZE
\* characters yields ceil(L / MAX_CHUNK_SIZE) fragments, each of
\* MAX_CHUNK_SIZE characters but the last, which holds the rest, and the
\* fragments concatenated are the word.
C15_LongWordSplit ==
    pc = "chunk_done" /\ NonSpace(text) = text /\ Len(text) > MAX_CHUNK_SIZE =>
        /\ Len(chunks) = CeilDiv(Len(text), MAX_CHUNK_SIZE)
        /\ \A k \in 1..Len(chunks) : Len(chunks[k]) <= MAX_CHUNK_SIZE
        /\ \A k \in 1..Len(chunks) - 1 : Len(chunks[k]) = MAX_CHUNK_SIZE
        /\ Join(chunks, << >>) = text


(***************************************************************************)
(* Properties of the exit status, the merger and the request inputs        *)
(***************************************************************************)
\* the configuration passes validateConfiguration
ValidConfig ==
    /\ ~Falsy(config.apiKey) /\ startsWithSk(config.apiKey)
    /\ config.voice \in VOICES
    /\ config.audioFormat \in AUDIO_FORMATS
    /\ config.textSource = "file" => config.fileExists

\* C17: the process leaves with status 0 after a complete conversion, with
\* status 1 when validation, reading the text, synthesis or the merge ended
\* in an error, and with status 0 when it is interrupted, at any point of the
\* run; the interrupt and everything after it sends no request, starts no
\* merge and writes or deletes no file.
C17_ExitStatus ==
    /\ [](/\ pc # "exited" => exitCode = -1 /\ ~interrupted
          /\ pc = "exited" /\ interrupted =>
                 exitCode = 0 /\ printed = MsgCancelled
          /\ pc = "exited" /\ ~interrupted =>
                 /\ exitCode \in {0, 1}
                 /\ exitCode = 0 <=> printed = MsgSuccess
                 /\ exitCode = 0 =>
                        /\ ValidConfig
                        /\ Exists(files, OutputPath(config))
                        /\ LastAnswered /\ lastResponse.ok
                 /\ ~ValidConfig => exitCode = 1
                 /\ config.textSource = "file" /\ requests = << >>
                        /\ mergeCalls = 0 => exitCode = 1
                 /\ LastAnswered /\ ~lastResponse.ok => exitCode = 1
                 /\ ~Exists(files, OutputPath(config)) => exitCode = 1)
    /\ [][interrupted' =>
              /\ requests' = requests
              /\ mergeCalls' = mergeCalls
              /\ files' = files
              /\ deleted' = deleted]_vars

\* interrupted while the request of a later chunk is in flight
C17_Witness ==
    /\ pc = "exited"
    /\ interrupted
    /\ exitCode = 0
    /\ inflight = 1
    /\ Len(requests) >= 2

\* C18: the merger is invoked at most once and only for two chunks or more;
\* when it is invoked every chunk has its fragment and the manifest lists the
\* fragment paths 1..N in ascending order.
C18_MergerOnlyForSeveralChunks ==
    /\ mergeCalls <= 1
    /\ mergeCalls > 0 =>
           /\ Len(chunks) >= 2
           /\ chunkPaths = [k \in 1..Len(chunks) |-> TempPath(config, k)]
           /\ pc = "ffmpeg" => files[ListPath] = chunkPaths

\* C19: every request carries as input a chunk returned by chunkText, of at
\* most MAX_CHUNK_SIZE characters, in the single path as in the loop.
C19_RequestInputIsChunk ==
    \A k \in 1..Len(requests) :
        /\ requests[k].chunk \in 1..Len(chunks)
        /\ requests[k].input = chunks[requests[k].chunk]
        /\ Len(requests[k].input) <= MAX_CHUNK_SIZE


(***************************************************************************)
(* Properties of the configuration and of two runs in one directory        *)
(***************************************************************************)
\* the value the claim gives a setting: the flag when it is given, else the
\* first environment variable that is set, else what the code resolved
Precedence(flag, envs, resolved) ==
    IF flag # Undefined THEN flag
    ELSE IF envs # << >> /\ envs[1] # Undefined THEN envs[1]
    ELSE IF Len(envs) > 1 /\ envs[2] # Undefined THEN envs[2]
    ELSE resolved

\* C16: the API key, the voice, the audio format and the output base name are
\* each the value of the flag when the flag is given and, when it is not,
\* the value of the environment variable when that is set.
C16_FlagThenEnvironment ==
    pc \in {"validate", "get_text", "exited"} =>
        /\ config.apiKey =
               Precedence(cli.argv.apiKey,
                          <<cli.env.OPENAI_API_KEY,
                            cli.env.READING_LAMP_API_KEY>>, config.apiKey)
        /\ config.voice =
               Precedence(cli.argv.voice, <<cli.env.READING_LAMP_VOICE>>,
                          config.voice)
        /\ config.audioFormat =
               Precedence(cli.argv.audioFormat,
                          <<cli.env.READING_LAMP_AUDIO_FORMAT>>,
                          config.audioFormat)
        /\ config.output =
               Precedence(cli.argv.output, <<cli.env.READING_LAMP_OUTPUT>>,
                          config.output)

\* C20: two runs in one working directory with different output base names
\* do not touch each other's temporary files: the manifest a run hands to
\* ffmpeg is the one it wrote, and the output of each run holds the audio of
\* its own chunks only (runs that call the merger without a chunk, the case
\* of C12 and C18, are left aside).
C20_RunsDoNotCollide ==
    mergeCalls = 0 \/ Len(chunks) >= 2 =>
        /\ pc = "ffmpeg" =>
               Exists(files, ListPath) /\ files[ListPath] = chunkPaths
        /\ peer.pc = "ffmpeg" =>
               Exists(files, ListPath) /\ files[ListPath] = peer.chunkPaths
        /\ config # NoConfig /\ Exists(files, OutputPath(config)) =>
               \A k \in 1..Len(files[OutputPath(config)]) :
                   \E r \in 1..Len(requests) :
                       files[OutputPath(config)][k].input = requests[r].input
        /\ Exists(files, OutputPath(PeerConfig)) =>
               files[OutputPath(PeerConfig)] =
                   [k \in 1..Len(PeerChunks) |-> Audio(k, PeerChunks[k])]

=============================================================================
